---- MODULE Spec2Model ----
(***************************************************************************)
(* Model of the Refactoring Swarm orchestrator                             *)
(* (src/src/orchestrator.py, RefactoringOrchestrator): the audit, then     *)
(* the bounded self-healing loop of Fixer and Judge stages.                *)
(*                                                                         *)
(* The agents are collaborators called through their methods               *)
(* (auditor.analyze, fixer.fix_file, judge.evaluate).  Each call is        *)
(* modelled by the outcomes the orchestrator's code distinguishes: the     *)
(* dictionary it returns (which keys it carries, with which values) or an  *)
(* exception.  One action is one collaborator call together with all the   *)
(* orchestrator code that runs until the next call or the return of run.   *)
(*                                                                         *)
(* Further specifications of the module, over the same state:             *)
(*   RateSeqSpec, RateConcSpec  the rate limiter of BaseAgent and          *)
(*       QuotaManager, with sequential and with concurrent callers;        *)
(*   LlmSpec  BaseAgent.call_llm and the oracle invocations of the roles;  *)
(*   IoSpec   the path guards and the places that open files.              *)
(*   FixSpec  the application of a fix to a file (FixerAgent.apply_fix,    *)
(*       code_modifier.apply_fix) beside other writers of the file;        *)
(*   ParseSpec  the parsers of the oracle's answers;                       *)
(*   LogSeqSpec, LogConcSpec  log_experiment and the experiment log, with  *)
(*       calls one after another and with concurrent calls;                *)
(*   LogFileSpec  log_experiment on a log file found empty, undecodable    *)
(*       or in the old format;                                             *)
(*   EvaluateSpec  JudgeAgent.evaluate_fixes on a list of fixes;           *)
(*   MainSpec  the command line (main.py) around the orchestrator.         *)
(***************************************************************************)
EXTENDS Integers, Sequences, FiniteSets, TLC

\* ---------------------------------------------------------------- bounds
\* Largest number of files the audit reports in files_analyzed.
MaxFiles == 2
\* Largest total_issues value the audit reports.
MaxIssues == 2

\* Latest clock value to which Tick advances (in half seconds) and the
\* clock value at which the program starts; number of acquire calls; the callers of acquire.
MaxTime == 44
StartTime == 15
MaxCalls == 3
Callers == {1, 2}
\* Number of file operations of one run.
MaxOps == 3
\* Number of fix applications, and of changes other processes make to the
\* file meanwhile.
MaxFixOps == 2
\* Length of an oracle text, in tokens.
MaxTextLen == 3
\* Length of the issues_found list of a judgment.
MaxIssueList == 2
\* Length of the fix list handed to evaluate_fixes.
MaxFixList == 3
\* Number of log_experiment calls.
MaxLogCalls == 2
MaxExternal == 2

\* ------------------------------------------------------ program constants
\* src/src/config.py:44
MAX_ITERATIONS == 10

\* A key that a dictionary does not carry (integer- and string-valued).
NoKey == -1
Missing == "<missing>"
\* Python's None, for previous_feedback (orchestrator.py:103).
None == "<None>"

\* Error messages the oracle raises, as sequences of characters (str(e),
\* base_agent.py:72).
\* "429 Resource has been exhausted"
Msg429 ==
    <<"4", "2", "9", " ", "R", "e", "s", "o", "u", "r", "c", "e", " ", "h",
      "a", "s", " ", "b", "e", "e", "n", " ", "e", "x", "h", "a", "u", "s",
      "t", "e", "d">>
\* "Quota exceeded for metric"
MsgQuota ==
    <<"Q", "u", "o", "t", "a", " ", "e", "x", "c", "e", "e", "d", "e", "d",
      " ", "f", "o", "r", " ", "m", "e", "t", "r", "i", "c">>
\* "Rate limit reached"
MsgRateLimit ==
    <<"R", "a", "t", "e", " ", "l", "i", "m", "i", "t", " ", "r", "e", "a",
      "c", "h", "e", "d">>
\* "400 API key not valid"
MsgBadKey ==
    <<"4", "0", "0", " ", "A", "P", "I", " ", "k", "e", "y", " ", "n", "o",
      "t", " ", "v", "a", "l", "i", "d">>
\* "404 model is not supported for generateContent"
MsgNotFound ==
    <<"4", "0", "4", " ", "m", "o", "d", "e", "l", " ", "i", "s", " ", "n",
      "o", "t", " ", "s", "u", "p", "p", "o", "r", "t", "e", "d", " ", "f",
      "o", "r", " ", "g", "e", "n", "e", "r", "a", "t", "e", "C", "o", "n",
      "t", "e", "n", "t">>

\* The errors of the oracle: the message, and whether the error is a
\* throttling signal of the service (HTTP 429, quota or rate limit).
Errors ==
    { [msg |-> Msg429, throttling |-> TRUE, kind |-> "oracle"],
      [msg |-> MsgQuota, throttling |-> TRUE, kind |-> "oracle"],
      [msg |-> MsgRateLimit, throttling |-> TRUE, kind |-> "oracle"],
      [msg |-> MsgBadKey, throttling |-> FALSE, kind |-> "oracle"],
      [msg |-> MsgNotFound, throttling |-> FALSE, kind |-> "oracle"] }
\* No error is being propagated.
NoError == [msg |-> <<>>, throttling |-> FALSE, kind |-> "none"]
\* The exception a failing log_experiment raises (logger.py:84-110).
LogError == [msg |-> <<>>, throttling |-> FALSE, kind |-> "log"]
\* What one log_experiment call does: it writes an entry or it raises.
LogOutcomes == {"written", "raise"}

\* File names, as sequences of characters; DotDot is the parent directory.
NameWork == <<"w", "o", "r", "k">>
NameSandbox == <<"s", "a", "n", "d", "b", "o", "x">>
NameSandboxEvil == <<"s", "a", "n", "d", "b", "o", "x", "_", "e", "v", "i", "l">>
NameEtc == <<"e", "t", "c">>
NameLink == <<"l", "i", "n", "k">>
NameFile == <<"a", ".", "p", "y">>
DotDot == <<".", ".">>

\* A path is absolute or relative to the working directory, and is a
\* sequence of names.
\* The working directory /work of the process.
Cwd == <<NameWork>>
\* sandbox_dir = "./sandbox", the default of every guard
\* (file_tools.py:21, tools/sandbox_manager.py:14).
SandboxDir == [abs |-> FALSE, parts |-> <<NameSandbox>>]
\* The symbolic links of the file system: /work/sandbox/link -> /etc.
Symlinks == (<<NameWork, NameSandbox, NameLink>> :> <<NameEtc>>)
\* The paths handed to the file operations: a file of the sandbox, the
\* sandbox itself, a traversal out of it, an absolute path outside, a
\* sibling directory whose name extends the sandbox's, a link out of it.
Paths ==
    { [abs |-> FALSE, parts |-> <<NameSandbox, NameFile>>],
      [abs |-> FALSE, parts |-> <<NameSandbox>>],
      [abs |-> TRUE, parts |-> <<NameWork, NameSandbox, NameFile>>],
      [abs |-> FALSE, parts |-> <<NameSandbox, DotDot, NameFile>>],
      [abs |-> TRUE, parts |-> <<NameEtc, NameFile>>],
      [abs |-> FALSE, parts |-> <<NameSandboxEvil, NameFile>>],
      [abs |-> FALSE, parts |-> <<NameSandbox, NameLink, NameFile>>] }

\* A file that does not exist, and a fix without original_code, written as
\* sequences that are no text.
Absent == <<"<absent>">>
NoCode == <<"<None>">>
\* The fixes handed to apply_fix: original_code (NoCode when the key is
\* missing), fixed_code, whether fixed_code is valid Python, and dry_run.
Fixes ==
    [original_code : {NoCode, <<>>, <<"a">>, <<"a", "b">>},
     fixed_code : {<<"c">>, <<"c", "a">>},
     syntax_ok : BOOLEAN,
     dry_run : BOOLEAN]
\* No fix application has reported yet.
NoReport == [op |-> "none", status |-> "none", validated |-> FALSE,
             found |-> FALSE, written |-> FALSE]

\* What parse gives: the exception it raises ("none" when it returns), the
\* type of the value it returns, whether it is the fallback of the except
\* clause, the keys of the returned dictionary, its issues, verdict and
\* requires_revision, and whether it marks a parsing failure.
ParseResult(exc, type, fallback, keys, issues, verdict, requires_revision, marked) ==
    [exc |-> exc, type |-> type, fallback |-> fallback, keys |-> keys,
     issues |-> issues, verdict |-> verdict,
     requires_revision |-> requires_revision, marked |-> marked]

\* logger.py:30-37: the values of ActionType.
ActionTypes == {"ANALYSIS", "GENERATION", "DEBUG", "FIX"}
\* The arguments of log_experiment: the action (JUDGE is what the Judge
\* passes, judge_agent.py:302), the status (STARTED is what the Auditor
\* passes, auditor_agent.py:214), and the values of the two mandatory keys
\* of details (Missing when details has no such key).
LogArgs ==
    [action : {"FIX", "JUDGE"},
     status : {"SUCCESS", "FAILURE", "STARTED"},
     input_prompt : {Missing, None, "", "prompt"},
     output_response : {Missing, None, "response"}]
\* logger.py:115-124: the entry, with the uuid as a number.
LogEntry(id, args) ==
    [id |-> id, action |-> args.action, status |-> args.status,
     input_prompt |-> args.input_prompt, output_response |-> args.output_response]
\* The log file: the state of the file and, for a document
\* {"experiments": [...]}, its entries.
\* A file that is absent ("absent"), or was just opened for writing
\* ("empty"), has no entries.
LogFileState(state, experiments) == [state |-> state, experiments |-> experiments]

\* Feedback texts a Judge evaluation can carry ("" is the empty string).
Feedbacks == {"", "fb1", "fb2"}
\* Values of the "decision" key of a Judge evaluation.
Decisions == {"SUCCESS", "RETRY", "APPROVED"}

\* The dictionaries auditor.analyze can hand to run, by what run reads:
\* the "error" key (line 86), files_analyzed (line 91), total_issues
\* (lines 92-94) and pylint_scores (line 229).
\* A dictionary without files_analyzed is one of analyze's early returns
\* (auditor_agent.py:124-129, 135-140, 263-269), which carry none of the
\* other keys either.
AuditResults ==
    { r \in [error          : BOOLEAN,
             files_analyzed : {NoKey} \cup (0..MaxFiles),
             total_issues   : {NoKey} \cup (0..MaxIssues),
             pylint_scores  : BOOLEAN] :
        r.files_analyzed = NoKey => (r.total_issues = NoKey /\ ~r.pylint_scores) }

\* The dictionaries judge.evaluate can return, by what run reads
\* (lines 126, 147).
Evaluations ==
    [decision : Decisions \cup {Missing},
     feedback : Feedbacks \cup {Missing}]

\* The outcomes of one fixer.fix_file call (lines 199-205, 209-211):
\* a result whose 'success' is truthy, one whose 'success' is falsy or
\* absent, or an exception.
FixOutcomes == {"success", "no_success", "raise"}

VARIABLES
    pc,                \* position of run: start, fixer, judge, done, raised
    audit_results,     \* the dictionary returned by auditor.analyze
    iteration,         \* self.iteration (line 106)
    fileIdx,           \* position of _run_fixer's loop in files_analyzed
    previous_feedback, \* line 103, line 147
    result,            \* the dictionary run returns
    \* history of the run, written but never read by the orchestrator
    fixerStages,       \* number of _run_fixer calls
    judgeStages,       \* number of _run_judge calls
    fixCalls,          \* number of fixer.fix_file calls
    judgeCalls,        \* number of judge.evaluate calls
    triedNow,          \* files handed to fix_file in the current stage
    fixedNow,          \* files fixed with success in the current stage
    fixerOkIter,       \* last iteration whose Fixer stage returned True
    fixFailed,         \* <<iteration, file>> of the first failed fix_file, or <<>>
    lastFixFeedback,   \* feedback argument of the last fix_file call
    approvedFiles,     \* files whose evaluation decided SUCCESS
    firstApproval,     \* iteration of the first SUCCESS decision, or 0
    judgeRaisedAt,     \* iteration of the last Judge stage that raised, or 0
    lastJudgeFeedback  \* "feedback" of the last Judge decision

\* The rate limiter: BaseAgent._wait_for_rate_limit (base_agent.py:116-125)
\* and QuotaManager.check_and_record (quota_manager.py:35-59), which run
\* the same steps on their own clock value and interval.
VARIABLES
    now,               \* time.time(), in half seconds
    interval,          \* rate_limit_interval / min_delay of the limiter in use, 0 before the first call
    last_request_time, \* BaseAgent._last_request_time / QuotaManager.last_call_time
    acq,               \* per caller: position in acquire and wake-up time of its sleep
    call_count,        \* completed acquire calls (QuotaManager.call_count)
    prevDone,          \* completion time of the acquire before the last one, or NoKey
    lastDone           \* completion time of the last completed acquire, or NoKey

\* BaseAgent.call_llm (base_agent.py:48-114) and the oracle invocations of
\* the roles.
VARIABLES
    cpc,          \* position in call_llm
    attempt,      \* loop variable of the retry loop (line 66)
    invocations,  \* oracle invocations made by the current call
    sleeps,       \* backoff sleeps made by the current call
    logEntries,   \* log entries written by the current call
    logFailed,    \* whether a log_experiment of the current call raised
    errorsSeen,   \* the errors the oracle raised in the current call
    retriedAfter, \* the errors after which the current call retried
    raisedError,  \* the error the current call propagates, or NoError
    llmCalls,     \* calls of call_llm started
    oracleLog,    \* every oracle invocation: the role and whether it acquired the rate limiter first
    rolesRun,     \* roles whose oracle-calling method has run
    lastInvoked   \* clock value of the last oracle invocation made by call_llm, or NoKey

\* File access: the path guards and the places that open files.
VARIABLES
    opened,   \* every open(): the path, the mode, the component, whether a guard ran first
    verdicts, \* every guard evaluation: the guard, the path, "accept" or "raise"
    ioOps     \* file operations done

\* Applying a fix: FixerAgent.apply_fix (fixer_agent.py:189-278) and
\* code_modifier.apply_fix (code_modifier.py:73-182) on one file.
VARIABLES
    fileContent,  \* the content of the file, or Absent
    fpc,          \* position in FixerAgent.apply_fix: "idle" or "write"
    fix,          \* the fix being applied
    contentRead,  \* content, as read at line 219
    fixReport,    \* what the last fix application reported
    fixOps,       \* fix applications started
    externalOps   \* changes made to the file by other processes

\* The parsers of the roles: JSONOutputParser (auditor_agent.py:18-67),
\* JudgmentOutputParser (judge_agent.py:17-85) and FixOutputParser
\* (fixer_agent.py:17-56).
VARIABLES
    pparser,  \* the parser that ran last, or "none"
    ptext,    \* the text it was given
    presult,  \* what parse returned or raised
    judgment    \* the Judge parser: issues_found and blocking_issues of the Judgment returned

\* The experiment log: log_experiment (logger.py:47-147) and the file
\* logs/experiment_data.json.
VARIABLES
    logFile,    \* the log file: absent, empty, a document with its experiments, a bare list, text that is no JSON, or other content
    lcall,      \* per caller: position in log_experiment, its entry, the data it read, the entries persisted at its call
    logCalls,   \* log_experiment calls made
    lastLog,    \* the arguments of the last call and whether its validation raised
    lreturned   \* the entries of the calls that returned normally

\* The command line (main.py) and the Judge's evaluation of a list of
\* fixes (JudgeAgent.evaluate_fixes).
VARIABLES
    cli,        \* main: its position, the target and the credential it found, whether the orchestrator was created, the exit code
    evaluated   \* evaluate_fixes: the verdicts of the fixes and the dictionary returned

orchVars == <<pc, audit_results, iteration, fileIdx, previous_feedback, result,
          fixerStages, judgeStages, fixCalls, judgeCalls, triedNow, fixedNow,
          fixerOkIter, fixFailed, lastFixFeedback, approvedFiles,
          firstApproval, judgeRaisedAt, lastJudgeFeedback>>

rateVars == <<now, interval, last_request_time, acq, call_count, prevDone, lastDone>>

llmVars == <<cpc, attempt, invocations, sleeps, logEntries, logFailed, errorsSeen,
            retriedAfter, raisedError, llmCalls, oracleLog, rolesRun, lastInvoked>>

ioVars == <<opened, verdicts, ioOps>>

fixVars == <<fileContent, fpc, fix, contentRead, fixReport, fixOps, externalOps>>

\* The state of the orchestrator, the rate limiter, call_llm and file access.
baseVars == <<orchVars, rateVars, llmVars, ioVars>>
\* The state of fix application, of the parsers and of the experiment log.
parseVars == <<pparser, ptext, presult, judgment>>
logVars == <<logFile, lcall, logCalls, lastLog, lreturned>>
outerVars == <<cli, evaluated>>
moreVars == <<fixVars, parseVars, logVars, outerVars>>

vars == <<baseVars, moreVars>>


\* ------------------------------------------------------------- helpers

\* dict.get(key, default) on a value that may be Missing.
DictGet(v, default) == IF v = Missing THEN default ELSE v

\* Python truthiness of previous_feedback (line 198): None and "" are falsy.
Truthy(fb) == fb # None /\ fb # ""

\* run's result dictionaries.
NoResult == [status |-> "NONE"]
FailedResult == [status |-> "FAILED", error |-> "audit error"]
NoFixesNeeded == [status |-> "SUCCESS", iterations |-> 0]
SuccessResult(k) == [status |-> "SUCCESS", iterations |-> k]
MaxIterationsResult == [status |-> "MAX_ITERATIONS", iterations |-> MAX_ITERATIONS]

\* Variants of HasNextIteration: range(1, MAX_ITERATIONS + 2) and
\* range(1, MAX_ITERATIONS).
HasNextIteration_OneMore(k) == k < MAX_ITERATIONS + 1
HasNextIteration_OneLess(k) == k < MAX_ITERATIONS - 1

\* for iteration in range(1, MAX_ITERATIONS + 1): is there an iteration after k?
HasNextIteration(k) == k < MAX_ITERATIONS

\* Variant of IsSuccess: if decision != "RETRY".
IsSuccess_NotRetry(decision) == decision # "RETRY"

\* if decision == "SUCCESS" (line 128)
IsSuccess(decision) == decision = "SUCCESS"

\* Variant of RetryDecision: the except clause answers SUCCESS.
RetryDecision_FailOpen == [decision |-> "SUCCESS", feedback |-> Missing]

\* The decision dictionary _run_judge builds in its except clause
\* (lines 241-245) and for an empty file list (lines 225-226): neither has
\* a "feedback" key.
RetryDecision == [decision |-> "RETRY", feedback |-> Missing]

Init ==
    /\ pc = "start"
    /\ audit_results = [error |-> FALSE, files_analyzed |-> NoKey,
                        total_issues |-> NoKey, pylint_scores |-> FALSE]
    /\ iteration = 0
    /\ fileIdx = 0
    /\ previous_feedback = None
    /\ result = NoResult
    /\ fixerStages = 0
    /\ judgeStages = 0
    /\ fixCalls = 0
    /\ judgeCalls = 0
    /\ triedNow = {}
    /\ fixedNow = {}
    /\ fixerOkIter = 0
    /\ fixFailed = <<>>
    /\ lastFixFeedback = None
    /\ approvedFiles = {}
    /\ firstApproval = 0
    /\ judgeRaisedAt = 0
    /\ lastJudgeFeedback = None
    \* base_agent.py:17, quota_manager.py:29-33
    /\ now = StartTime
    /\ interval = 0
    /\ last_request_time = 0
    /\ acq = [c \in Callers |-> [pc |-> "idle", wake |-> 0]]
    /\ call_count = 0
    /\ prevDone = NoKey
    /\ lastDone = NoKey
    /\ cpc = "idle"
    /\ attempt = 0
    /\ invocations = 0
    /\ sleeps = 0
    /\ logEntries = 0
    /\ logFailed = FALSE
    /\ errorsSeen = {}
    /\ retriedAfter = {}
    /\ raisedError = NoError
    /\ llmCalls = 0
    /\ oracleLog = {}
    /\ rolesRun = {}
    /\ lastInvoked = NoKey
    /\ opened = {}
    /\ verdicts = {}
    /\ ioOps = 0
    /\ fileContent = <<"a", "b">>
    /\ fpc = "idle"
    /\ fix = [original_code |-> NoCode, fixed_code |-> <<>>, syntax_ok |-> FALSE,
              dry_run |-> FALSE]
    /\ contentRead = <<>>
    /\ fixReport = NoReport
    /\ fixOps = 0
    /\ externalOps = 0
    /\ pparser = "none"
    /\ ptext = <<>>
    /\ presult = ParseResult("none", "none", FALSE, {}, <<>>, "", FALSE, FALSE)
    /\ judgment = [returned |-> FALSE, issues_found |-> <<>>, given |-> <<>>,
                   blocking_issues |-> <<>>]
    /\ logFile = LogFileState("absent", <<>>)
    /\ lcall = [c \in Callers |->
                   [pc |-> "idle",
                    entry |-> LogEntry(0, [action |-> "", status |-> "",
                                           input_prompt |-> Missing,
                                           output_response |-> Missing]),
                    data |-> <<>>, before |-> <<>>, found |-> ""]]
    /\ logCalls = 0
    /\ lastLog = [args |-> [action |-> "", status |-> "", input_prompt |-> Missing,
                           output_response |-> Missing],
                  exc |-> "none"]
    /\ lreturned = {}
    /\ cli = [pc |-> "args", target |-> "", key |-> "", created |-> FALSE,
              code |-> NoKey]
    /\ evaluated = [done |-> FALSE, exc |-> "none", fixes |-> <<>>,
                    overall_verdict |-> "", total_fixes |-> 0, approved |-> 0,
                    rejected |-> 0, needs_revision |-> 0]

\* The parts of the program an operation of the orchestrator leaves alone.
NotOrch == <<rateVars, llmVars, ioVars, moreVars>>

\* The parts of the program an acquire on the rate limiter leaves alone.
NotRate == <<orchVars, llmVars, ioVars, moreVars>>


\* ----------------------------------------------------------- operations

\* return <res> from run: nothing else of run's state changes.
Return(res) ==
    /\ pc' = "done"
    /\ result' = res
    /\ UNCHANGED <<iteration, fileIdx>>

\* An exception leaves run (no handler in run): no result is returned.
Raise ==
    /\ pc' = "raised"
    /\ UNCHANGED <<iteration, fileIdx, result>>

\* Lines 105-114 and 172-175, 207: iteration k of the loop starts and calls
\* _run_fixer, which walks files_analyzed; over an empty list it returns
\* True at once and run goes on to the Judge stage (lines 120-124).
EnterIteration(k, fb, files) ==
    /\ iteration' = k
    /\ previous_feedback' = fb
    /\ fixerStages' = fixerStages + 1
    /\ triedNow' = {}
    /\ fixedNow' = {}
    /\ result' = result
    /\ IF files = 0
         THEN /\ pc' = "judge"
              /\ fileIdx' = 0
              /\ fixerOkIter' = k
         ELSE /\ pc' = "fixer"
              /\ fileIdx' = 1
              /\ fixerOkIter' = fixerOkIter

\* Variant of AuditFailed: only a result without a file list is a failure.
AuditFailed_NoFileList(r) == r.error /\ r.files_analyzed = NoKey

\* if "error" in audit_results (line 86)
AuditFailed(r) == r.error

\* Variant of NoIssues: if not audit_results['files_analyzed'].
NoIssues_NoFiles(r) == r.files_analyzed = 0

\* if audit_results['total_issues'] == 0 (line 94)
NoIssues(r) == r.total_issues = 0

\* Lines 84-103: the audit and run's reading of its result.
Audit ==
    /\ pc = "start"
    /\ \E r \in AuditResults :
         /\ audit_results' = r
         /\ IF AuditFailed(r)
              THEN \* lines 86-88
                   /\ Return(FailedResult)
                   /\ UNCHANGED <<previous_feedback, fixerStages, triedNow, fixedNow, fixerOkIter>>
              ELSE IF r.files_analyzed = NoKey \/ r.total_issues = NoKey
              THEN \* lines 91-92: KeyError
                   /\ Raise
                   /\ UNCHANGED <<previous_feedback, fixerStages, triedNow, fixedNow, fixerOkIter>>
              ELSE IF NoIssues(r)
              THEN \* lines 94-96
                   /\ Return(NoFixesNeeded)
                   /\ UNCHANGED <<previous_feedback, fixerStages, triedNow, fixedNow, fixerOkIter>>
              ELSE \* lines 103-114
                   EnterIteration(1, None, r.files_analyzed)
    /\ UNCHANGED <<judgeStages, fixCalls, judgeCalls, fixFailed, lastFixFeedback,
                   approvedFiles, firstApproval, judgeRaisedAt, lastJudgeFeedback>>
    /\ UNCHANGED NotOrch

\* Variants of FixStops: a failed file is skipped (no return False at line
\* 205, no except clause), and only an exception ends the stage.
FixStops_Never(out) == FALSE
FixStops_OnlyRaise(out) == out = "raise"

\* Lines 203-205, 209-211: does this outcome of fix_file end _run_fixer
\* with False?
FixStops(out) == out # "success"

\* The result run returns after "break" at line 118: control falls to the
\* code after the loop, lines 149-159.
AfterBreak == MaxIterationsResult

\* Lines 175-207 (one file of _run_fixer's loop) and lines 116-124.
FixFile ==
    /\ pc = "fixer"
    /\ \E out \in FixOutcomes :
         /\ fixCalls' = fixCalls + 1
         \* lines 198-201
         /\ lastFixFeedback' = IF Truthy(previous_feedback)
                                 THEN previous_feedback ELSE None
         /\ triedNow' = triedNow \cup {fileIdx}
         /\ fixedNow' = IF out = "success" THEN fixedNow \cup {fileIdx} ELSE fixedNow
         /\ fixFailed' = IF out # "success" /\ fixFailed = <<>>
                           THEN <<iteration, fileIdx>> ELSE fixFailed
         /\ IF FixStops(out)
              THEN \* return False; line 116-118 break; lines 149-159
                   /\ Return(AfterBreak)
                   /\ UNCHANGED fixerOkIter
              ELSE IF fileIdx < audit_results.files_analyzed
              THEN \* next file
                   /\ fileIdx' = fileIdx + 1
                   /\ UNCHANGED <<pc, iteration, result, fixerOkIter>>
              ELSE \* line 207 return True; lines 120-124
                   /\ pc' = "judge"
                   /\ fixerOkIter' = iteration
                   /\ UNCHANGED <<iteration, fileIdx, result>>
    /\ UNCHANGED <<audit_results, previous_feedback, fixerStages, judgeStages,
                   judgeCalls, approvedFiles, firstApproval, judgeRaisedAt,
                   lastJudgeFeedback>>
    /\ UNCHANGED NotOrch

\* Variant of NextFeedback: feedback once given is kept
\* (previous_feedback = previous_feedback or judge_decision.get(...)).
NextFeedback_KeepFirst(prev, judge_decision) ==
    IF Truthy(prev) THEN prev ELSE DictGet(judge_decision.feedback, "")

\* previous_feedback = judge_decision.get('feedback', '') (line 147)
NextFeedback(prev, judge_decision) == DictGet(judge_decision.feedback, "")

\* The file _run_judge evaluates: files_analyzed[0] (line 228).
JudgedFiles == {1}

\* Lines 126-159: run's reading of the decision dictionary judge_decision.
AfterJudge(judge_decision) ==
    LET decision == DictGet(judge_decision.decision, "RETRY")
        feedback == NextFeedback(previous_feedback, judge_decision)
    IN  /\ lastJudgeFeedback' = judge_decision.feedback
        /\ firstApproval' = IF judge_decision.decision = "SUCCESS" /\ firstApproval = 0
                              THEN iteration ELSE firstApproval
        /\ IF IsSuccess(decision)
             THEN \* lines 128-143
                  /\ Return(SuccessResult(iteration))
                  /\ approvedFiles' = JudgedFiles
                  /\ UNCHANGED <<previous_feedback, fixerStages, triedNow, fixedNow, fixerOkIter>>
             ELSE IF HasNextIteration(iteration)
             THEN \* lines 144-147, then the next iteration
                  /\ EnterIteration(iteration + 1, feedback, audit_results.files_analyzed)
                  /\ UNCHANGED approvedFiles
             ELSE \* lines 144-147, then lines 149-159
                  /\ previous_feedback' = feedback
                  /\ Return(MaxIterationsResult)
                  /\ UNCHANGED <<approvedFiles, fixerStages, triedNow, fixedNow, fixerOkIter>>

\* Line 225: files_analyzed is empty; line 229: pylint_scores is read.
CanEvaluate ==
    /\ audit_results.files_analyzed > 0
    /\ audit_results.pylint_scores

\* Lines 223-239: _run_judge calls judge.evaluate, which returns a dictionary.
JudgeReturns ==
    /\ pc = "judge"
    /\ CanEvaluate
    /\ \E ev \in Evaluations :
         /\ judgeStages' = judgeStages + 1
         /\ judgeCalls' = judgeCalls + 1
         /\ UNCHANGED judgeRaisedAt
         /\ AfterJudge(ev)
    /\ UNCHANGED <<audit_results, fixCalls, fixFailed, lastFixFeedback>>
    /\ UNCHANGED NotOrch

\* Lines 229, 237, 241-245: an exception inside _run_judge's try, raised by
\* judge.evaluate or by the lookup of pylint_scores before it.
JudgeRaises ==
    /\ pc = "judge"
    /\ audit_results.files_analyzed > 0
    /\ judgeStages' = judgeStages + 1
    /\ judgeCalls' = IF CanEvaluate THEN judgeCalls + 1 ELSE judgeCalls
    /\ judgeRaisedAt' = iteration
    /\ AfterJudge(RetryDecision)
    /\ UNCHANGED <<audit_results, fixCalls, fixFailed, lastFixFeedback>>
    /\ UNCHANGED NotOrch

\* Lines 225-226: no file to evaluate.
JudgeNoFiles ==
    /\ pc = "judge"
    /\ audit_results.files_analyzed = 0
    /\ judgeStages' = judgeStages + 1
    /\ UNCHANGED <<judgeCalls, judgeRaisedAt>>
    /\ AfterJudge(RetryDecision)
    /\ UNCHANGED <<audit_results, fixCalls, fixFailed, lastFixFeedback>>
    /\ UNCHANGED NotOrch

Next == Audit \/ FixFile \/ JudgeReturns \/ JudgeRaises \/ JudgeNoFiles

Spec == Init /\ [][Next]_vars

\* run is one sequential call: every step that can be taken is taken.
FairSpec == Spec /\ WF_vars(Next)

TypeOK ==
    /\ pc \in {"start", "fixer", "judge", "done", "raised"}
    /\ audit_results \in AuditResults
    /\ iteration \in 0..MAX_ITERATIONS
    /\ fileIdx \in 0..MaxFiles
    /\ previous_feedback \in Feedbacks \cup {None}


\* ------------------------------------------------------- rate limiter

\* The intervals in use, in half seconds: QuotaManager.min_delay = 1.0
\* (quota_manager.py:33) and BaseAgent's default interval 6.5
\* (base_agent.py:46), which every agent of the swarm gets.
MIN_DELAY == 2
RATE_LIMIT_INTERVAL == 13
Intervals == {MIN_DELAY, RATE_LIMIT_INTERVAL}

\* Variant of WaitTime: the time already passed is not subtracted.
WaitTime_Short(since, iv) == iv - since - 1

\* wait_time = self.rate_limit_interval - time_since_last_request
\* (base_agent.py:122, quota_manager.py:50)
WaitTime(since, iv) == iv - since

\* if time_since_last_request < self.rate_limit_interval
\* (base_agent.py:121, quota_manager.py:49)
NeedsWait(since, iv) == since < iv

NoCallerActive == \A c \in Callers : acq[c].pc = "idle"

\* base_agent.py:118-123, quota_manager.py:46-52: the caller reads the
\* clock and the last request time and, when too little time has passed,
\* calls time.sleep.
Begin(c) ==
    /\ acq[c].pc = "idle"
    /\ call_count + Cardinality({d \in Callers : acq[d].pc # "idle"}) < MaxCalls
    /\ \E iv \in (IF interval = 0 THEN Intervals ELSE {interval}) :
         LET current_time == now
             time_since_last_request == current_time - last_request_time
         IN  /\ interval' = iv
             /\ acq' = [acq EXCEPT ![c] =
                   IF NeedsWait(time_since_last_request, iv)
                     THEN [pc |-> "sleep",
                           wake |-> now + WaitTime(time_since_last_request, iv)]
                     ELSE [pc |-> "record", wake |-> 0]]
    /\ UNCHANGED <<now, last_request_time, call_count, prevDone, lastDone>>
    /\ UNCHANGED NotRate

\* time.sleep(wait_time) returns: not before wait_time has passed.
Wake(c) ==
    /\ acq[c].pc = "sleep"
    /\ now >= acq[c].wake
    /\ acq' = [acq EXCEPT ![c] = [pc |-> "record", wake |-> 0]]
    /\ UNCHANGED <<now, interval, last_request_time, call_count, prevDone, lastDone>>
    /\ UNCHANGED NotRate

\* base_agent.py:125, quota_manager.py:55-59: the call is recorded at the
\* current clock value and acquire returns.
Record(c) ==
    /\ acq[c].pc = "record"
    /\ last_request_time' = now
    /\ call_count' = call_count + 1
    /\ prevDone' = lastDone
    /\ lastDone' = now
    /\ acq' = [acq EXCEPT ![c] = [pc |-> "idle", wake |-> 0]]
    /\ UNCHANGED <<now, interval>>
    /\ UNCHANGED NotRate

\* Time passes.
Tick ==
    /\ now < MaxTime
    /\ now' = now + 1
    /\ UNCHANGED <<interval, last_request_time, acq, call_count, prevDone, lastDone>>
    /\ UNCHANGED NotRate

\* Sequential callers: acquire is entered only when no call is in progress.
RateSeqNext ==
    \/ \E c \in Callers : NoCallerActive /\ Begin(c)
    \/ \E c \in Callers : Wake(c)
    \/ \E c \in Callers : Record(c)
    \/ Tick
RateSeqSpec == Init /\ [][RateSeqNext]_vars

\* Concurrent callers (threads): the steps of their calls interleave; the
\* code takes no lock.
RateConcNext ==
    \/ \E c \in Callers : Begin(c)
    \/ \E c \in Callers : Wake(c)
    \/ \E c \in Callers : Record(c)
    \/ Tick
RateConcSpec == Init /\ [][RateConcNext]_vars

\* ----------------------------------------------------------- call_llm

UpperCase == <<"A", "B", "C", "D", "E", "F", "G", "H", "I", "J", "K", "L", "M",
               "N", "O", "P", "Q", "R", "S", "T", "U", "V", "W", "X", "Y", "Z">>
LowerCase == <<"a", "b", "c", "d", "e", "f", "g", "h", "i", "j", "k", "l", "m",
               "n", "o", "p", "q", "r", "s", "t", "u", "v", "w", "x", "y", "z">>

\* str.lower
LowerChar(c) ==
    IF \E i \in 1..Len(UpperCase) : UpperCase[i] = c
      THEN LowerCase[CHOOSE i \in 1..Len(UpperCase) : UpperCase[i] = c]
      ELSE c
Lower(str) == [i \in 1..Len(str) |-> LowerChar(str[i])]

\* sub in str
Contains(sub, str) ==
    \E i \in 1..(Len(str) - Len(sub) + 1) : SubSeq(str, i, i + Len(sub) - 1) = sub

\* base_agent.py:72: "429" in str(e) or "quota" in str(e).lower()
\* or "rate" in str(e).lower()
IsRateLimitError(e) ==
    \/ Contains(<<"4", "2", "9">>, e.msg)
    \/ Contains(<<"q", "u", "o", "t", "a">>, Lower(e.msg))
    \/ Contains(<<"r", "a", "t", "e">>, Lower(e.msg))

\* base_agent.py:65
max_retries == 3

\* base_agent.py:74: if attempt < max_retries - 1
CanRetry(a) == a < max_retries - 1

\* Variant of BackoffTime: the wait does not grow with the attempt.
BackoffTime_Flat(a, iv) == iv * 2

\* base_agent.py:75: wait_time = (attempt + 1) * self.rate_limit_interval * 2
BackoffTime(a, iv) == (a + 1) * iv * 2

\* Variant of EntriesWritten: a log_experiment that raises still counts.
EntriesWritten_Always(out) == 1

\* logger.py:127-145: a log_experiment that returns has appended one entry,
\* one that raises has appended none.
EntriesWritten(out) == IF out = "written" THEN 1 ELSE 0

\* base_agent.py:61: call_llm starts with _wait_for_rate_limit, run here
\* from its first to its last line by the one thread of the call.
CallLlm ==
    /\ cpc \in {"idle", "returned", "raised"}
    /\ llmCalls < MaxCalls
    /\ LET since == now - last_request_time
           done == IF NeedsWait(since, RATE_LIMIT_INTERVAL)
                     THEN now + WaitTime(since, RATE_LIMIT_INTERVAL)
                     ELSE now
       IN  /\ now' = done
           /\ last_request_time' = done
           /\ prevDone' = lastDone
           /\ lastDone' = done
    /\ interval' = RATE_LIMIT_INTERVAL
    /\ call_count' = call_count + 1
    /\ llmCalls' = llmCalls + 1
    /\ cpc' = "attempt"
    /\ attempt' = 0
    /\ invocations' = 0
    /\ sleeps' = 0
    /\ logEntries' = 0
    /\ logFailed' = FALSE
    /\ errorsSeen' = {}
    /\ retriedAfter' = {}
    /\ raisedError' = NoError
    /\ UNCHANGED <<acq, oracleLog, rolesRun, lastInvoked>>
    /\ UNCHANGED <<orchVars, ioVars, moreVars>>

\* base_agent.py:68-70: generate_content and response.text return.
OracleSucceeds ==
    /\ cpc = "attempt"
    /\ invocations' = invocations + 1
    /\ oracleLog' = oracleLog \cup {[role |-> "BaseAgent", acquired |-> TRUE]}
    /\ lastInvoked' = now
    /\ cpc' = "log_success"
    /\ UNCHANGED <<attempt, sleeps, logEntries, logFailed, errorsSeen, retriedAfter,
                   raisedError, llmCalls, rolesRun>>
    /\ UNCHANGED <<orchVars, rateVars, ioVars, moreVars>>

\* base_agent.py:68-79: generate_content (or response.text) raises e; the
\* handler sleeps and continues, or re-raises into the outer handler.
OracleRaises ==
    /\ cpc = "attempt"
    /\ \E e \in Errors :
         /\ invocations' = invocations + 1
         /\ oracleLog' = oracleLog \cup {[role |-> "BaseAgent", acquired |-> TRUE]}
         /\ lastInvoked' = now
         /\ errorsSeen' = errorsSeen \cup {e}
         /\ IF IsRateLimitError(e) /\ CanRetry(attempt)
              THEN /\ now' = now + BackoffTime(attempt, interval)
                   /\ sleeps' = sleeps + 1
                   /\ retriedAfter' = retriedAfter \cup {e}
                   /\ attempt' = attempt + 1
                   /\ cpc' = "attempt"
                   /\ UNCHANGED raisedError
              ELSE /\ raisedError' = e
                   /\ cpc' = "log_failure"
                   /\ UNCHANGED <<now, sleeps, retriedAfter, attempt>>
    /\ UNCHANGED <<logEntries, logFailed, llmCalls, rolesRun>>
    /\ UNCHANGED <<interval, last_request_time, acq, call_count, prevDone, lastDone>>
    /\ UNCHANGED <<orchVars, ioVars, moreVars>>

\* base_agent.py:82-98: the interaction is logged with status SUCCESS and
\* the text is returned; a raising log_experiment enters the outer handler.
LogSuccess ==
    /\ cpc = "log_success"
    /\ \E out \in LogOutcomes :
         /\ logEntries' = logEntries + EntriesWritten(out)
         /\ IF out = "written"
              THEN cpc' = "returned" /\ UNCHANGED <<logFailed, raisedError>>
              ELSE cpc' = "log_failure" /\ logFailed' = TRUE /\ raisedError' = LogError
    /\ UNCHANGED <<attempt, invocations, sleeps, errorsSeen, retriedAfter, llmCalls,
                   oracleLog, rolesRun, lastInvoked>>
    /\ UNCHANGED <<orchVars, rateVars, ioVars, moreVars>>

\* base_agent.py:100-114: the failure is logged with status FAILURE and the
\* error is re-raised; a raising log_experiment propagates its own error.
LogFailure ==
    /\ cpc = "log_failure"
    /\ \E out \in LogOutcomes :
         /\ logEntries' = logEntries + EntriesWritten(out)
         /\ IF out = "written"
              THEN UNCHANGED <<logFailed, raisedError>>
              ELSE logFailed' = TRUE /\ raisedError' = LogError
    /\ cpc' = "raised"
    /\ UNCHANGED <<attempt, invocations, sleeps, errorsSeen, retriedAfter, llmCalls,
                   oracleLog, rolesRun, lastInvoked>>
    /\ UNCHANGED <<orchVars, rateVars, ioVars, moreVars>>

\* auditor_agent.py:218: _analyze_files invokes self.llm directly.
AuditorInvoke ==
    /\ "Auditor" \notin rolesRun
    /\ rolesRun' = rolesRun \cup {"Auditor"}
    /\ oracleLog' = oracleLog \cup {[role |-> "Auditor", acquired |-> FALSE]}
    /\ UNCHANGED <<cpc, attempt, invocations, sleeps, logEntries, logFailed,
                   errorsSeen, retriedAfter, raisedError, llmCalls, lastInvoked>>
    /\ UNCHANGED <<orchVars, rateVars, ioVars, moreVars>>

\* judge_agent.py:290, 453: _generate_judgment and compare_versions invoke
\* self.llm directly.
JudgeInvoke ==
    /\ "Judge" \notin rolesRun
    /\ rolesRun' = rolesRun \cup {"Judge"}
    /\ oracleLog' = oracleLog \cup {[role |-> "Judge", acquired |-> FALSE]}
    /\ UNCHANGED <<cpc, attempt, invocations, sleeps, logEntries, logFailed,
                   errorsSeen, retriedAfter, raisedError, llmCalls, lastInvoked>>
    /\ UNCHANGED <<orchVars, rateVars, ioVars, moreVars>>

\* fixer_agent.py:331-399: _generate_fix calls log_experiment without
\* 'output_response' before its oracle call at line 344; log_experiment
\* raises (logger.py:98-110) and the oracle is not reached.
FixerGenerate ==
    /\ "Fixer" \notin rolesRun
    /\ rolesRun' = rolesRun \cup {"Fixer"}
    /\ UNCHANGED <<cpc, attempt, invocations, sleeps, logEntries, logFailed,
                   errorsSeen, retriedAfter, raisedError, llmCalls, oracleLog,
                   lastInvoked>>
    /\ UNCHANGED <<orchVars, rateVars, ioVars, moreVars>>

LlmNext ==
    \/ CallLlm \/ OracleSucceeds \/ OracleRaises \/ LogSuccess \/ LogFailure
    \/ AuditorInvoke \/ JudgeInvoke \/ FixerGenerate
LlmSpec == Init /\ [][LlmNext]_vars

\* --------------------------------------------------------- file access

Front(seq) == SubSeq(seq, 1, Len(seq) - 1)
Last(seq) == seq[Len(seq)]

\* os.path.normpath on the names of an absolute path: a ".." removes the
\* name before it and stays at the root.
RECURSIVE NormPath(_)
NormPath(parts) ==
    IF parts = <<>> THEN <<>>
    ELSE LET init == NormPath(Front(parts))
         IN  IF Last(parts) = DotDot
               THEN (IF init = <<>> THEN <<>> ELSE Front(init))
               ELSE Append(init, Last(parts))

\* os.path.abspath: normpath(join(os.getcwd(), path)); links are kept.
AbsPath(path) == NormPath(IF path.abs THEN path.parts ELSE Cwd \o path.parts)

\* os.path.realpath / Path.resolve: as abspath, and every prefix that is a
\* symbolic link is replaced by its target.
RECURSIVE Resolve(_)
Resolve(parts) ==
    IF parts = <<>> THEN <<>>
    ELSE LET init == Resolve(Front(parts))
         IN  IF Last(parts) = DotDot
               THEN (IF init = <<>> THEN <<>> ELSE Front(init))
               ELSE LET q == Append(init, Last(parts))
                    IN  IF q \in DOMAIN Symlinks THEN Symlinks[q] ELSE q
RealPath(path) == Resolve(IF path.abs THEN path.parts ELSE Cwd \o path.parts)

\* os.sep
Sep == <<"/">>

\* The string of an absolute path: "/" for the root, else "/name" per name.
RECURSIVE PathString(_)
PathString(parts) ==
    IF parts = <<>> THEN Sep
    ELSE IF Len(parts) = 1 THEN Sep \o parts[1]
    ELSE PathString(Front(parts)) \o Sep \o Last(parts)

\* str.startswith
StartsWith(str, prefix) ==
    Len(prefix) <= Len(str) /\ SubSeq(str, 1, Len(prefix)) = prefix

\* file_tools.py:35-44: abs_path.startswith(abs_sandbox) on abspath.
is_safe_path(path) ==
    StartsWith(PathString(AbsPath(path)), PathString(AbsPath(SandboxDir)))

\* tools/sandbox_manager.py:29-38: realpath, then
\* abs_path.startswith(abs_sandbox + os.sep) or abs_path == abs_sandbox.
is_path_in_sandbox(path) ==
    LET abs_path == PathString(RealPath(path))
        abs_sandbox == PathString(RealPath(SandboxDir))
    IN  StartsWith(abs_path, abs_sandbox \o Sep) \/ abs_path = abs_sandbox

\* sandbox_manager.py:39-51: Path(filepath).resolve().relative_to(root):
\* the names of the root are the first names of the resolved path.
SandboxManager_is_safe_path(path) ==
    LET abs_path == RealPath(path)
        sandbox_root == RealPath(SandboxDir)
    IN  /\ Len(sandbox_root) <= Len(abs_path)
        /\ SubSeq(abs_path, 1, Len(sandbox_root)) = sandbox_root

\* Raising SecurityError or returning True.
Verdict(accepted) == IF accepted THEN "accept" ELSE "raise"

OpenEvent(path, mode, by, guarded) ==
    [path |-> path, mode |-> mode, by |-> by, guarded |-> guarded]
GuardEvent(guard, path, accepted) ==
    [guard |-> guard, path |-> path, verdict |-> Verdict(accepted)]

\* file_tools.py:51-88: read_file checks the path, then the existence of
\* the file, then opens it.
ReadFile ==
    /\ ioOps < MaxOps
    /\ \E path \in Paths, exists \in BOOLEAN :
         /\ verdicts' = verdicts \cup {GuardEvent("file_tools.is_safe_path", path, is_safe_path(path))}
         /\ opened' = IF is_safe_path(path) /\ exists
                        THEN opened \cup {OpenEvent(path, "r", "read_file", TRUE)}
                        ELSE opened
    /\ ioOps' = ioOps + 1
    /\ UNCHANGED <<orchVars, rateVars, llmVars, moreVars>>

\* file_tools.py:91-113: write_file checks the path, creates the parent
\* directory and opens the file for writing.
WriteFile ==
    /\ ioOps < MaxOps
    /\ \E path \in Paths :
         /\ verdicts' = verdicts \cup {GuardEvent("file_tools.is_safe_path", path, is_safe_path(path))}
         /\ opened' = IF is_safe_path(path)
                        THEN opened \cup {OpenEvent(path, "w", "write_file", TRUE)}
                        ELSE opened
    /\ ioOps' = ioOps + 1
    /\ UNCHANGED <<orchVars, rateVars, llmVars, moreVars>>

\* tools/sandbox_manager.py:14-38
CheckPathInSandbox ==
    /\ ioOps < MaxOps
    /\ \E path \in Paths :
         verdicts' = verdicts \cup {GuardEvent("is_path_in_sandbox", path, is_path_in_sandbox(path))}
    /\ ioOps' = ioOps + 1
    /\ UNCHANGED opened
    /\ UNCHANGED <<orchVars, rateVars, llmVars, moreVars>>

\* sandbox_manager.py:67-107: validate_write and validate_read raise
\* SecurityError when is_safe_path returns False.
SandboxValidate ==
    /\ ioOps < MaxOps
    /\ \E path \in Paths :
         verdicts' = verdicts \cup
            {GuardEvent("SandboxManager.validate", path, SandboxManager_is_safe_path(path))}
    /\ ioOps' = ioOps + 1
    /\ UNCHANGED opened
    /\ UNCHANGED <<orchVars, rateVars, llmVars, moreVars>>

\* auditor_agent.py:169-183: _read_file_content opens the file itself.
AuditorReadFile ==
    /\ ioOps < MaxOps
    /\ \E path \in Paths :
         opened' = opened \cup {OpenEvent(path, "r", "Auditor", FALSE)}
    /\ ioOps' = ioOps + 1
    /\ UNCHANGED verdicts
    /\ UNCHANGED <<orchVars, rateVars, llmVars, moreVars>>

\* fixer_agent.py:210-241: apply_fix opens an existing file for reading
\* and, when the original code is in it and the run is not a dry run, for
\* writing.
FixerApplyFix ==
    /\ ioOps < MaxOps
    /\ \E path \in Paths, exists \in BOOLEAN, found \in BOOLEAN, dry_run \in BOOLEAN :
         opened' = opened
            \cup (IF exists THEN {OpenEvent(path, "r", "Fixer", FALSE)} ELSE {})
            \cup (IF exists /\ found /\ ~dry_run
                    THEN {OpenEvent(path, "w", "Fixer", FALSE)} ELSE {})
    /\ ioOps' = ioOps + 1
    /\ UNCHANGED verdicts
    /\ UNCHANGED <<orchVars, rateVars, llmVars, moreVars>>

\* fixer_agent.py:280-293: _read_file_section opens the file itself.
FixerReadSection ==
    /\ ioOps < MaxOps
    /\ \E path \in Paths :
         opened' = opened \cup {OpenEvent(path, "r", "Fixer", FALSE)}
    /\ ioOps' = ioOps + 1
    /\ UNCHANGED verdicts
    /\ UNCHANGED <<orchVars, rateVars, llmVars, moreVars>>

IoNext ==
    \/ ReadFile \/ WriteFile \/ CheckPathInSandbox \/ SandboxValidate
    \/ AuditorReadFile \/ FixerApplyFix \/ FixerReadSection
IoSpec == Init /\ [][IoNext]_vars

\* --------------------------------------------------------- applying a fix

FixReport(op, status, validated, found, written) ==
    [op |-> op, status |-> status, validated |-> validated, found |-> found,
     written |-> written]

\* original_code in content (fixer_agent.py:222)
InContent(code, content) == content # Absent /\ Contains(code, content)

\* str.replace(old, new, 1): the first occurrence of old is replaced, and
\* a string without occurrence is returned as it is.
Replace(content, old, new) ==
    IF ~Contains(old, content) THEN content
    ELSE LET Match(i) == SubSeq(content, i, i + Len(old) - 1) = old
             first == CHOOSE i \in 1..(Len(content) - Len(old) + 1) :
                          Match(i) /\ \A j \in 1..(i - 1) : ~Match(j)
         IN  SubSeq(content, 1, first - 1) \o new
                 \o SubSeq(content, first + Len(old), Len(content))

\* fixer_agent.py:199-235: the missing-field and existence checks, the
\* read of the file, the search for original_code and the dry-run return.
ApplyFixRead ==
    /\ fpc = "idle"
    /\ fixOps < MaxFixOps
    /\ fixOps' = fixOps + 1
    /\ \E f \in Fixes :
         /\ fix' = f
         /\ IF f.original_code = NoCode \/ fileContent = Absent
              THEN /\ fixReport' = FixReport("FixerAgent", "ERROR", FALSE, FALSE, FALSE)
                   /\ UNCHANGED <<fpc, contentRead>>
              ELSE /\ contentRead' = fileContent
                   /\ IF ~InContent(f.original_code, fileContent)
                        THEN /\ fixReport' = FixReport("FixerAgent", "ERROR", FALSE, FALSE, FALSE)
                             /\ UNCHANGED fpc
                        ELSE IF f.dry_run
                        THEN /\ fixReport' = FixReport("FixerAgent", "DRY_RUN", FALSE, TRUE, FALSE)
                             /\ UNCHANGED fpc
                        ELSE /\ fpc' = "write"
                             /\ fixReport' = NoReport
    /\ UNCHANGED <<fileContent, externalOps>>
    /\ UNCHANGED <<baseVars, parseVars, logVars, outerVars>>

\* fixer_agent.py:237-278: the content read before, with the replacement,
\* is written to the file.  The log_experiment call that follows has no
\* 'input_prompt' in its details and raises ValueError (logger.py:98-103);
\* so does the one of the handler, whose ValueError leaves apply_fix.
ApplyFixWrite ==
    /\ fpc = "write"
    /\ fileContent' = Replace(contentRead, fix.original_code, fix.fixed_code)
    /\ fixReport' = FixReport("FixerAgent", "ValueError", FALSE, TRUE, TRUE)
    /\ fpc' = "idle"
    /\ UNCHANGED <<fix, contentRead, fixOps, externalOps>>
    /\ UNCHANGED <<baseVars, parseVars, logVars, outerVars>>

\* Another process writes or removes the file.
ExternalWrite ==
    /\ externalOps < MaxExternal
    /\ externalOps' = externalOps + 1
    /\ \E c \in {<<>>, <<"a">>, <<"b">>, <<"a", "b">>, <<"b", "a">>, Absent}
                    \ {fileContent} : fileContent' = c
    /\ UNCHANGED <<fpc, fix, contentRead, fixReport, fixOps>>
    /\ UNCHANGED <<baseVars, parseVars, logVars, outerVars>>

\* code_modifier.py:73-182: the syntax of fixed_code is validated, the
\* file is read and backed up, and fixed_code is written as the whole new
\* content of the file.
ModifierApplyFix ==
    /\ fpc = "idle"
    /\ fixOps < MaxFixOps
    /\ fixOps' = fixOps + 1
    /\ \E f \in Fixes, backup_ok \in BOOLEAN :
         /\ fix' = f
         /\ IF ~f.syntax_ok
              THEN /\ fixReport' = FixReport("code_modifier", "ERROR", FALSE, FALSE, FALSE)
                   /\ UNCHANGED fileContent
              ELSE IF fileContent = Absent \/ ~backup_ok
              THEN /\ fixReport' = FixReport("code_modifier", "ERROR", TRUE, FALSE, FALSE)
                   /\ UNCHANGED fileContent
              ELSE /\ fileContent' = f.fixed_code
                   /\ fixReport' = FixReport("code_modifier", "SUCCESS", TRUE, FALSE, TRUE)
    /\ UNCHANGED <<fpc, contentRead, externalOps>>
    /\ UNCHANGED <<baseVars, parseVars, logVars, outerVars>>

FixNext == ApplyFixRead \/ ApplyFixWrite \/ ExternalWrite \/ ModifierApplyFix
FixSpec == Init /\ [][FixNext]_vars

\* -------------------------------------------------------------- parsers

\* An oracle text is a sequence of tokens: the fences "```json" and "```",
\* white space, prose (text that is no JSON), and JSON values.  A JSON
\* value has a kind, the names for which Python's "name in value" holds
\* (keys of an object, elements of an array, substrings of a string) and
\* whether the elements of its issue lists are objects.
Token(t, keys, wf) == [t |-> t, keys |-> keys, wf |-> wf]
FenceJson == Token("fencejson", {}, TRUE)
Fence == Token("fence", {}, TRUE)
WhiteSpace == Token("ws", {}, TRUE)
Prose == Token("prose", {}, TRUE)
\* What json.loads gives for text that is no JSON: JSONDecodeError.
Undecodable == Token("undecodable", {}, TRUE)

JudgeKeys == {"verdict", "overall_score", "assessment", "issues_found",
              "strengths", "summary", "requires_revision", "blocking_issues"}
\* The keys of the three roles' answers together (the Auditor's issues and
\* summary, the Judge's, the Fixer's fixes and file).
AllKeys == {"issues", "summary"} \cup JudgeKeys \cup {"fixes", "file"}

Values ==
    { Token("object", {}, TRUE),
      Token("object", {"issues"}, TRUE),
      Token("object", {"issues"}, FALSE),
      Token("object", {"issues_found"}, FALSE),
      Token("object", {"issues_found"}, TRUE),
      Token("object", {"fixes"}, TRUE),
      Token("object", {"file"}, TRUE),
      Token("object", AllKeys, TRUE),
      Token("array", {}, TRUE),
      Token("array", {"fixes"}, TRUE),
      Token("array", AllKeys, TRUE),
      Token("string", {}, TRUE),
      Token("number", {}, TRUE),
      Token("null", {}, TRUE) }
Tokens == {FenceJson, Fence, WhiteSpace, Prose} \cup Values
Texts == UNION {[1..n -> Tokens] : n \in 0..MaxTextLen}

\* "```json" in text, "```" in text: "```json" starts with "```".
HasToken(text, kinds) == \E i \in 1..Len(text) : text[i].t \in kinds

\* text.find(fence, start): the first position from start on, 0 for -1.
FindToken(text, kinds, start) ==
    IF \E i \in start..Len(text) : text[i].t \in kinds
      THEN CHOOSE i \in start..Len(text) :
               /\ text[i].t \in kinds
               /\ \A j \in start..(i - 1) : text[j].t \notin kinds
      ELSE 0

\* A token without its last character: white space is one character, a
\* number stays a number, every other token becomes text that is no JSON.
Chopped(tok) ==
    IF tok.t = "ws" THEN <<>>
    ELSE IF tok.t = "number" THEN <<tok>>
    ELSE <<Prose>>

\* text[json_start:json_end], where json_end = -1 (no closing fence) drops
\* the last character of the text.
Slice(text, json_start, json_end) ==
    IF json_end # 0 THEN SubSeq(text, json_start, json_end - 1)
    ELSE IF json_start > Len(text) THEN <<>>
    ELSE SubSeq(text, json_start, Len(text) - 1) \o Chopped(text[Len(text)])

\* str.strip
Strip(text) ==
    IF \A i \in 1..Len(text) : text[i].t = "ws" THEN <<>>
    ELSE LET first == CHOOSE i \in 1..Len(text) :
                          text[i].t # "ws" /\ \A j \in 1..(i - 1) : text[j].t = "ws"
             last == CHOOSE i \in 1..Len(text) :
                          text[i].t # "ws" /\ \A j \in (i + 1)..Len(text) : text[j].t = "ws"
         IN  SubSeq(text, first, last)

\* The extraction of json_str, the same in the three parsers
\* (auditor_agent.py:25-35, judge_agent.py:24-34, fixer_agent.py:24-34).
JsonStr(text) ==
    IF HasToken(text, {"fencejson"})
      THEN LET json_start == FindToken(text, {"fencejson"}, 1) + 1
           IN  Strip(Slice(text, json_start,
                           FindToken(text, {"fence", "fencejson"}, json_start)))
    ELSE IF HasToken(text, {"fence"})
      THEN LET json_start == FindToken(text, {"fence"}, 1) + 1
           IN  Strip(Slice(text, json_start,
                           FindToken(text, {"fence", "fencejson"}, json_start)))
    ELSE Strip(text)

\* json.loads: one JSON value, and nothing else, decodes.
JsonLoads(json_str) ==
    IF Len(json_str) = 1 /\ json_str[1].t \in {"object", "array", "string", "number", "null"}
      THEN json_str[1]
      ELSE Undecodable

\* "name in result" raises TypeError on a number and on None.
NotIterable(value) == value.t \in {"number", "null"}

Raises(exc) == ParseResult(exc, "none", FALSE, {}, <<>>, "", FALSE, FALSE)

\* The issues of a decoded object, whatever they are.
GivenIssues == <<[severity |-> "given", category |-> "given"]>>

\* auditor_agent.py:51-67
AuditorFallback ==
    ParseResult("none", "dict", TRUE, {"issues", "summary"},
                <<[severity |-> "low", category |-> "parsing_error"]>>,
                "", FALSE, TRUE)

\* auditor_agent.py:21-67
JSONOutputParser_parse(text) ==
    LET decoded == JsonLoads(JsonStr(text))
    IN  IF decoded = Undecodable THEN AuditorFallback
        ELSE IF NotIterable(decoded) THEN Raises("TypeError")
        ELSE IF "issues" \notin decoded.keys
          THEN (IF decoded.t # "object" THEN Raises("TypeError")
                ELSE ParseResult("none", "dict", FALSE,
                                 decoded.keys \cup {"issues", "summary"},
                                 <<>>, "", FALSE, FALSE))
        ELSE IF "summary" \notin decoded.keys
          THEN (IF decoded.t # "object" THEN Raises("TypeError")
                ELSE IF ~decoded.wf THEN Raises("AttributeError")
                ELSE ParseResult("none", "dict", FALSE,
                                 decoded.keys \cup {"summary"},
                                 GivenIssues, "", FALSE, FALSE))
        ELSE ParseResult("none", IF decoded.t = "object" THEN "dict" ELSE decoded.t,
                         FALSE, decoded.keys, GivenIssues, "", FALSE, FALSE)

\* The issues_found of a decoded object: each issue has a severity and a
\* description, or no description.
IssueLists ==
    UNION {[1..n -> [severity : {"critical", "minor"},
                     description : {"d1", "d2", Missing}]] : n \in 0..MaxIssueList}

\* issue["description"] on an issue without description.
KeyError == <<"<KeyError>">>

\* Variant of BlockingIssues: the descriptions of all issues.
BlockingIssues_All(issues_found) ==
    IF \E i \in 1..Len(issues_found) : issues_found[i].description = Missing
      THEN KeyError
      ELSE [k \in 1..Len(issues_found) |-> issues_found[k].description]

\* judge_agent.py:62-66: [issue["description"] for issue in
\* result["issues_found"] if issue.get("severity") == "critical"]
BlockingIssues(issues_found) ==
    LET critical == SelectSeq(issues_found, LAMBDA issue : issue.severity = "critical")
    IN  IF \E k \in 1..Len(critical) : critical[k].description = Missing
          THEN KeyError
          ELSE [k \in 1..Len(critical) |-> critical[k].description]

\* Variant of JudgeFallback: the verdict defaults to approval.
JudgeFallback_Approved ==
    ParseResult("none", "dict", TRUE, JudgeKeys \cup {"raw_response"},
                <<[severity |-> "critical", category |-> "parsing_error"]>>,
                "APPROVED", FALSE, TRUE)

\* judge_agent.py:68-85
JudgeFallback ==
    ParseResult("none", "dict", TRUE, JudgeKeys \cup {"raw_response"},
                <<[severity |-> "critical", category |-> "parsing_error"]>>,
                "NEEDS_REVISION", TRUE, TRUE)

\* judge_agent.py:20-85
JudgmentOutputParser_parse(text) ==
    LET decoded == JsonLoads(JsonStr(text))
        verdict == IF "verdict" \in decoded.keys THEN "given" ELSE "NEEDS_REVISION"
        requires_revision ==
            IF "requires_revision" \in decoded.keys THEN FALSE
            ELSE verdict \in {"REJECTED", "NEEDS_REVISION"}
    IN  IF decoded = Undecodable THEN JudgeFallback
        ELSE IF NotIterable(decoded) THEN Raises("TypeError")
        ELSE IF decoded.t # "object"
          THEN (IF JudgeKeys \subseteq decoded.keys
                  THEN ParseResult("none", decoded.t, FALSE, decoded.keys,
                                   GivenIssues, "given", FALSE, FALSE)
                  ELSE Raises("TypeError"))
        ELSE IF "blocking_issues" \notin decoded.keys
                /\ "issues_found" \in decoded.keys /\ ~decoded.wf
          THEN Raises("AttributeError")
        ELSE ParseResult("none", "dict", FALSE, decoded.keys \cup JudgeKeys,
                         IF "issues_found" \in decoded.keys THEN GivenIssues ELSE <<>>,
                         verdict, requires_revision, FALSE)

\* fixer_agent.py:51-56
FixerFallback ==
    ParseResult("none", "dict", TRUE, {"fixes", "error", "raw_response"},
                <<>>, "", FALSE, TRUE)

\* fixer_agent.py:20-56
FixOutputParser_parse(text) ==
    LET decoded == JsonLoads(JsonStr(text))
    IN  IF decoded = Undecodable THEN FixerFallback
        ELSE IF NotIterable(decoded) THEN Raises("TypeError")
        ELSE IF "fixes" \in decoded.keys /\ decoded.t # "object"
          THEN Raises("TypeError")
        ELSE ParseResult("none", "dict", FALSE, {"fixes", "raw_response"},
                         <<>>, "", FALSE, FALSE)

\* One oracle text is handed to one of the parsers.
AuditorParse ==
    /\ pparser = "none"
    /\ \E text \in Texts :
         /\ ptext' = text
         /\ presult' = JSONOutputParser_parse(text)
    /\ pparser' = "Auditor"
    /\ UNCHANGED judgment
    /\ UNCHANGED <<baseVars, fixVars, logVars, outerVars>>

\* The text is parsed; when it decodes to an object, the issues_found and
\* the blocking_issues the object holds are drawn here, and the Judgment
\* gets its blocking_issues (judge_agent.py:61-66, 83).
JudgeParse ==
    /\ pparser = "none"
    /\ \E text \in Texts :
         LET decoded == JsonLoads(JsonStr(text))
             parsed == JudgmentOutputParser_parse(text)
             object == decoded.t = "object"
         IN  \E issues_found \in (IF object /\ decoded.wf /\ "issues_found" \in decoded.keys
                                     THEN IssueLists ELSE {<<>>}),
                given \in (IF object /\ "blocking_issues" \in decoded.keys
                              THEN {<<>>, <<"d1">>, <<"other">>} ELSE {<<>>}) :
               LET blocking == IF "blocking_issues" \in decoded.keys THEN given
                               ELSE BlockingIssues(issues_found)
               IN  /\ ptext' = text
                   /\ IF parsed.fallback
                        THEN /\ presult' = parsed
                             /\ judgment' =
                                  [returned |-> TRUE,
                                   issues_found |-> <<[severity |-> "critical",
                                       description |-> "Failed to parse LLM judgment response"]>>,
                                   given |-> <<>>,
                                   blocking_issues |-> <<"Failed to parse judgment response">>]
                      ELSE IF parsed.exc = "none" /\ object /\ blocking = KeyError
                        THEN /\ presult' = Raises("KeyError")
                             /\ UNCHANGED judgment
                      ELSE /\ presult' = parsed
                           /\ judgment' = [returned |-> parsed.exc = "none" /\ object,
                                           issues_found |-> issues_found,
                                           given |-> given,
                                           blocking_issues |-> blocking]
    /\ pparser' = "Judge"
    /\ UNCHANGED <<baseVars, fixVars, logVars, outerVars>>

FixerParse ==
    /\ pparser = "none"
    /\ \E text \in Texts :
         /\ ptext' = text
         /\ presult' = FixOutputParser_parse(text)
    /\ pparser' = "Fixer"
    /\ UNCHANGED judgment
    /\ UNCHANGED <<baseVars, fixVars, logVars, outerVars>>

ParseNext == AuditorParse \/ JudgeParse \/ FixerParse
ParseSpec == Init /\ [][ParseNext]_vars

\* ------------------------------------------------------- experiment log

\* logger.py:84-94
ValidAction(args) == args.action \in ActionTypes

\* Variant of DetailsValid: only 'input_prompt' is looked for.
DetailsValid_InputOnly(args) == args.input_prompt # Missing

\* Variant of DetailsValid: only 'output_response' is looked for.
DetailsValid_OutputOnly(args) == args.output_response # Missing

\* Variant of DetailsValid: the values must be non-empty texts.
DetailsValid_Truthy(args) ==
    /\ args.input_prompt \notin {Missing, None, ""}
    /\ args.output_response \notin {Missing, None, ""}

\* logger.py:98-110: 'input_prompt' in details and 'output_response' in
\* details.
DetailsValid(args) ==
    /\ args.input_prompt # Missing
    /\ args.output_response # Missing

\* Variant of ReadData: the data always starts empty.
ReadData_Fresh(file) == <<>>

\* Variant of ReadData: a bare list is not converted.
ReadData_NoLegacy(file) == IF file.state = "doc" THEN file.experiments ELSE <<>>

\* logger.py:127-138: json.load of the file; a bare list becomes the
\* experiments; a file that is empty, no JSON ("corrupt") or absent gives
\* {"experiments": []}.
ReadData(file) ==
    IF file.state \in {"doc", "list"} THEN file.experiments ELSE <<>>

\* logger.py:40-44: _ensure_log_file creates the document when there is
\* no file.
EnsureLogFile(file) == IF file.state = "absent" THEN LogFileState("doc", <<>>) ELSE file

NoLogCallActive == \A c \in Callers : lcall[c].pc = "idle"

\* logger.py:84-124: the action and the details are validated (ValueError),
\* the log file is created if need be, and the entry is built.
LogBegin(c) ==
    /\ lcall[c].pc = "idle"
    /\ logCalls < MaxLogCalls
    /\ logCalls' = logCalls + 1
    /\ \E args \in LogArgs :
         IF ValidAction(args) /\ DetailsValid(args)
           THEN /\ lastLog' = [args |-> args, exc |-> "none"]
                /\ logFile' = EnsureLogFile(logFile)
                /\ lcall' = [lcall EXCEPT ![c] =
                      [pc |-> "read", entry |-> LogEntry(logCalls + 1, args),
                       data |-> <<>>, before |-> logFile.experiments,
                       found |-> logFile.state]]
           ELSE /\ lastLog' = [args |-> args, exc |-> "ValueError"]
                /\ UNCHANGED <<logFile, lcall>>
    /\ UNCHANGED lreturned
    /\ UNCHANGED <<baseVars, fixVars, parseVars, outerVars>>

\* logger.py:127-141: the file is read and the entry appended to the data.
\* A file holding JSON that is neither a list nor an object with
\* "experiments", or bytes that are no UTF-8 ("other"), makes line 141 or
\* the read raise an exception that is not caught.
LogRead(c) ==
    /\ lcall[c].pc = "read"
    /\ IF logFile.state = "other"
         THEN /\ lcall' = [lcall EXCEPT ![c].pc = "idle"]
              /\ lastLog' = [lastLog EXCEPT !.exc = "raised"]
         ELSE /\ lcall' = [lcall EXCEPT ![c].pc = "open",
                              ![c].data = Append(ReadData(logFile), lcall[c].entry)]
              /\ UNCHANGED lastLog
    /\ UNCHANGED <<logFile, logCalls, lreturned>>
    /\ UNCHANGED <<baseVars, fixVars, parseVars, outerVars>>

\* logger.py:144: open(LOG_FILE, 'w') empties the file.
LogOpen(c) ==
    /\ lcall[c].pc = "open"
    /\ logFile' = LogFileState("empty", <<>>)
    /\ lcall' = [lcall EXCEPT ![c].pc = "dump"]
    /\ UNCHANGED <<logCalls, lastLog, lreturned>>
    /\ UNCHANGED <<baseVars, fixVars, parseVars, outerVars>>

\* logger.py:145-147: json.dump writes the data and the id is returned.
LogDump(c) ==
    /\ lcall[c].pc = "dump"
    /\ logFile' = LogFileState("doc", lcall[c].data)
    /\ lreturned' = lreturned \cup {lcall[c].entry}
    /\ lcall' = [lcall EXCEPT ![c].pc = "idle"]
    /\ UNCHANGED <<logCalls, lastLog>>
    /\ UNCHANGED <<baseVars, fixVars, parseVars, outerVars>>

\* One log_experiment call at a time.
LogSeqNext ==
    \E c \in Callers :
        \/ NoLogCallActive /\ LogBegin(c)
        \/ LogRead(c)
        \/ LogOpen(c)
        \/ LogDump(c)
LogSeqSpec == Init /\ [][LogSeqNext]_vars

\* The state in which an earlier run or another writer left the log file
\* before the first call: emptied, cut short or overwritten with text that
\* is no JSON (it held an entry or none), written in the old format, a
\* bare list, or with other content.
LogFileReplaced ==
    /\ NoLogCallActive
    /\ logCalls = 0
    /\ logFile.state = "absent"
    /\ \E state \in {"empty", "corrupt", "list", "other"}, n \in 0..1 :
         logFile' = LogFileState(state,
                       IF state = "empty" THEN <<>>
                       ELSE [i \in 1..n |->
                               LogEntry(0, [action |-> "FIX", status |-> "SUCCESS",
                                            input_prompt |-> "prompt",
                                            output_response |-> "response"])])
    /\ UNCHANGED <<lcall, logCalls, lastLog, lreturned>>
    /\ UNCHANGED <<baseVars, fixVars, parseVars, outerVars>>

\* Calls one at a time, on a log file found in any of these states.
LogFileSpec == Init /\ [][LogSeqNext \/ LogFileReplaced]_vars

\* Concurrent log_experiment calls (threads, or processes on the same
\* file): the code takes no lock.
LogConcNext ==
    \E c \in Callers : LogBegin(c) \/ LogRead(c) \/ LogOpen(c) \/ LogDump(c)
LogConcSpec == Init /\ [][LogConcNext]_vars

\* ------------------------------------------------------- evaluate_fixes

\* judge_agent.py:139-198, 256-350: the judgment of one fix.  A fix with an
\* empty field is rejected without the oracle.  For any other fix the
\* oracle is invoked and answers with a verdict or raises; both the try
\* block and the handler then evaluate ActionType.JUDGE for their
\* log_experiment call, which is an AttributeError unless ActionType has
\* that member, and the handler's one leaves evaluate_fix.
EvaluateFix(f) ==
    IF f = "incomplete" THEN [exc |-> "none", verdict |-> "REJECTED"]
    ELSE IF "JUDGE" \notin ActionTypes
      THEN [exc |-> "AttributeError", verdict |-> ""]
    ELSE [exc |-> "none",
          verdict |-> IF f = "oracle raises" THEN "NEEDS_REVISION" ELSE f]

\* judge_agent.py:352-378
DetermineOverallVerdict(approved, rejected, needs_revision, total) ==
    IF total = 0 THEN "NO_FIXES"
    ELSE IF rejected > 0 THEN "REJECTED"
    ELSE IF needs_revision > 0 THEN "NEEDS_REVISION"
    ELSE IF approved = total THEN "APPROVED"
    ELSE "APPROVED_WITH_NOTES"

\* judge_agent.py:200-254: every fix is judged in turn and the verdicts
\* are counted; an exception of evaluate_fix leaves evaluate_fixes.
EvaluateFixes ==
    /\ ~evaluated.done
    /\ \E fixes \in UNION {[1..n -> {"incomplete", "oracle raises", "APPROVED",
                                     "APPROVED_WITH_NOTES", "REJECTED",
                                     "NEEDS_REVISION"}] : n \in 0..MaxFixList} :
         LET judgments == [i \in 1..Len(fixes) |-> EvaluateFix(fixes[i])]
             Count(counted) ==
                 Cardinality({i \in 1..Len(fixes) : judgments[i].verdict \in counted})
             approved_count == Count({"APPROVED", "APPROVED_WITH_NOTES"})
             rejected_count == Count({"REJECTED"})
             needs_revision_count == Len(fixes) - approved_count - rejected_count
         IN  evaluated' =
               IF \E i \in 1..Len(fixes) : judgments[i].exc # "none"
                 THEN [done |-> TRUE, exc |-> "AttributeError", fixes |-> fixes,
                       overall_verdict |-> "", total_fixes |-> 0, approved |-> 0,
                       rejected |-> 0, needs_revision |-> 0]
                 ELSE [done |-> TRUE, exc |-> "none", fixes |-> fixes,
                       overall_verdict |->
                           DetermineOverallVerdict(approved_count, rejected_count,
                                                   needs_revision_count, Len(fixes)),
                       total_fixes |-> Len(fixes), approved |-> approved_count,
                       rejected |-> rejected_count,
                       needs_revision |-> needs_revision_count]
    /\ UNCHANGED <<baseVars, fixVars, parseVars, logVars, cli>>

EvaluateSpec == Init /\ [][EvaluateFixes]_vars

\* ------------------------------------------------------- command line

\* Variant of ExitCode: 0 whenever run returned a result.
ExitCode_Returned(outcome, res) == IF outcome = "done" THEN 0 ELSE 1

\* main.py:64-78: 0 if results.get("status") == "SUCCESS", else 1; an
\* exception gives 1.
ExitCode(outcome, res) ==
    IF outcome = "done" /\ res.status = "SUCCESS" THEN 0 ELSE 1

\* main.py:43-60: the target directory and GOOGLE_API_KEY are checked, then
\* the orchestrator is constructed; its constructor returns or raises.
MainStart ==
    /\ cli.pc = "args"
    /\ \E target \in {"missing", "file", "dir"}, key \in {"unset", "", "key"},
          ctor \in {"ok", "raise"} :
         cli' = IF target # "dir" \/ key # "key"
                  THEN [pc |-> "exited", target |-> target, key |-> key,
                        created |-> FALSE, code |-> 1]
                ELSE IF ctor = "raise"
                  THEN [pc |-> "exited", target |-> target, key |-> key,
                        created |-> FALSE, code |-> ExitCode("raised", result)]
                ELSE [pc |-> "running", target |-> target, key |-> key,
                      created |-> TRUE, code |-> NoKey]
    /\ UNCHANGED <<baseVars, fixVars, parseVars, logVars, evaluated>>

\* main.py:61: orchestrator.run(), one step of run.
MainRun == cli.pc = "running" /\ Next

\* main.py:71-73: KeyboardInterrupt while run is going on.
MainInterrupt ==
    /\ cli.pc = "running"
    /\ pc \notin {"done", "raised"}
    /\ cli' = [cli EXCEPT !.pc = "exited", !.code = 130]
    /\ UNCHANGED <<baseVars, fixVars, parseVars, logVars, evaluated>>

\* main.py:64-69, 74-78: run returned or raised, and main exits.
MainExit ==
    /\ cli.pc = "running"
    /\ pc \in {"done", "raised"}
    /\ cli' = [cli EXCEPT !.pc = "exited", !.code = ExitCode(pc, result)]
    /\ UNCHANGED <<baseVars, fixVars, parseVars, logVars, evaluated>>

MainSpec == Init /\ [][MainStart \/ MainRun \/ MainInterrupt \/ MainExit]_vars

\* ------------------------------------------------------------ properties

Terminated == pc \in {"done", "raised"}
AuditFoundIssues == pc # "start" /\ ~audit_results.error /\ audit_results.total_issues > 0
AllFiles == 1..audit_results.files_analyzed

\* C1: the loop runs at most MAX_ITERATIONS iterations (one Fixer stage and
\* at most one Judge stage each) whatever the agents answer, run
\* terminates, and an approval in iteration 1 ends the run with exactly one
\* Fixer stage and one Judge stage.
C1_Bounded ==
    /\ iteration <= MAX_ITERATIONS
    /\ fixerStages = iteration
    /\ judgeStages <= iteration
    /\ fixCalls <= MAX_ITERATIONS * MaxFiles
    /\ firstApproval = 1 =>
         /\ pc = "done"
         /\ iteration = 1 /\ fixerStages = 1 /\ judgeStages = 1
C1_LoopTerminates == []C1_Bounded /\ <>Terminated
C1_Witness ==
    /\ pc = "done" /\ firstApproval = 1
    /\ result.status = "SUCCESS" /\ judgeStages = 1

\* C2: a failed Fixer stage in iteration k ends the run in iteration k with
\* status FAILED, with no further Fixer stage and no Judge stage for k.
C2_FixerFailureIsFailed ==
    (pc = "done" /\ fixFailed # <<>>) =>
        /\ result.status = "FAILED"
        /\ iteration = fixFailed[1]
        /\ fixerStages = fixFailed[1]
        /\ judgeStages = fixFailed[1] - 1

\* C3: an audit that reports zero issues makes run return SUCCESS with
\* iterations = 0, and no Fixer or Judge stage or call ever happens.
C3_NoIssuesSuccess ==
    (pc # "start" /\ ~audit_results.error /\ audit_results.total_issues = 0) =>
        /\ pc = "done"
        /\ result.status = "SUCCESS" /\ result.iterations = 0
        /\ fixerStages = 0 /\ judgeStages = 0
        /\ fixCalls = 0 /\ judgeCalls = 0
C3_Witness ==
    /\ pc = "done" /\ audit_results.total_issues = 0 /\ ~audit_results.error
    /\ audit_results.files_analyzed = 1 /\ result = NoFixesNeeded

\* C4: with issues found, run returns SUCCESS exactly when a Judge decision
\* approved, and then iterations is the index of the first (and only)
\* iteration whose decision approved.
C4_IterationsIsFirstApproval ==
    /\ (pc = "done" /\ AuditFoundIssues /\ result.status = "SUCCESS") =>
           /\ firstApproval \in 1..MAX_ITERATIONS
           /\ result.iterations = firstApproval
           /\ judgeStages = firstApproval
    /\ firstApproval # 0 =>
           /\ pc = "done"
           /\ result = SuccessResult(firstApproval)
           /\ iteration = firstApproval
C4_Witness ==
    /\ pc = "done" /\ firstApproval = MAX_ITERATIONS
    /\ result.status = "SUCCESS" /\ result.iterations = MAX_ITERATIONS

\* C5: when no Fixer stage failed and no Judge decision approved, run
\* returns MAX_ITERATIONS after exactly MAX_ITERATIONS Fixer stages and
\* MAX_ITERATIONS Judge stages.
C5_ExhaustedBudget ==
    (pc = "done" /\ AuditFoundIssues /\ fixFailed = <<>> /\ firstApproval = 0) =>
        /\ result.status = "MAX_ITERATIONS"
        /\ result.status \notin {"SUCCESS", "FAILED"}
        /\ iteration = MAX_ITERATIONS
        /\ fixerStages = MAX_ITERATIONS
        /\ judgeStages = MAX_ITERATIONS
C5_Witness ==
    /\ pc = "done" /\ fixFailed = <<>> /\ firstApproval = 0
    /\ audit_results.files_analyzed = MaxFiles
    /\ result.status = "MAX_ITERATIONS" /\ judgeStages = MAX_ITERATIONS

\* C6: a SUCCESS result after issues were found covers only files that the
\* Judge evaluated and approved.
C6_SuccessAllApproved ==
    (pc = "done" /\ AuditFoundIssues /\ result.status = "SUCCESS") =>
        approvedFiles = AllFiles

\* C7: fix_file is called only after the audit has completed with issues,
\* in iteration k only before the Judge stage of k, and the Judge stage of
\* iteration k starts only after the Fixer stage of k has returned True,
\* having fixed every file.
C7_StageOrder ==
    [][ /\ fixCalls' # fixCalls =>
             /\ AuditFoundIssues
             /\ fixerStages = iteration
             /\ judgeStages = iteration - 1
        /\ judgeStages' # judgeStages =>
             /\ AuditFoundIssues
             /\ judgeStages' = iteration
             /\ fixerOkIter = iteration
             /\ fixFailed = <<>>
             /\ fixedNow = AllFiles ]_vars
C7_Witness ==
    /\ pc = "judge" /\ iteration = 2 /\ judgeStages = 1
    /\ fixedNow = 1..MaxFiles

C10_AuditErrorFails ==
    (pc # "start" /\ audit_results.error) =>
        /\ pc = "done"
        /\ result.status = "FAILED"
        /\ fixerStages = 0 /\ judgeStages = 0
        /\ fixCalls = 0 /\ judgeCalls = 0
C10_Witness ==
    /\ pc = "done" /\ audit_results.error
    /\ audit_results.total_issues > 0 /\ audit_results.files_analyzed > 0
    /\ result.status = "FAILED"


\* The feedback text a Judge decision carries, None when it carries none
\* (no "feedback" key, or an empty text).
FeedbackText(fb) == IF fb \in {Missing, "", None} THEN None ELSE fb

\* C11: every fix_file call of iteration 1 is made without feedback, and
\* every fix_file call of an iteration k > 1 is given the feedback text of
\* the Judge decision of iteration k-1 (the last one taken), nothing else.
C11_FeedbackCarried ==
    [][ fixCalls' # fixCalls =>
            lastFixFeedback' = IF iteration = 1
                                 THEN None
                                 ELSE FeedbackText(lastJudgeFeedback) ]_vars
C11_Witness ==
    /\ pc = "fixer" /\ iteration = 3 /\ triedNow # {}
    /\ lastFixFeedback = "fb2" /\ lastJudgeFeedback = "fb2"


\* C12: with sequential callers, any two consecutive acquire calls complete
\* at least the interval apart.
C12_RateFloor ==
    prevDone # NoKey => lastDone - prevDone >= interval
C12_Witness ==
    /\ call_count >= 2 /\ interval = RATE_LIMIT_INTERVAL
    /\ NoCallerActive
    /\ lastDone - prevDone = RATE_LIMIT_INTERVAL

\* C13: with concurrent callers, no two acquire calls complete less than
\* the interval apart.
C13_ConcurrentRateFloor ==
    call_count >= 2 => lastDone >= prevDone + interval

CallEnded == cpc \in {"returned", "raised"}

\* C14: every invocation of the oracle, by any role, was preceded by an
\* acquire on the rate limiter.
C14_OracleBehindLimiter ==
    \A inv \in oracleLog : inv.acquired

\* C15: one call_llm invokes the oracle at most 3 times, retries only after
\* an error that is a throttling signal, and propagates the error of a
\* throttled third attempt.
C15_BoundedRetries ==
    /\ invocations <= max_retries
    /\ \A e \in retriedAfter : e.throttling
    /\ (cpc = "raised" /\ invocations = max_retries /\ ~logFailed)
          => raisedError \in errorsSeen

\* C16: a call_llm whose oracle fails with errors that are not throttling
\* signals invokes the oracle once, does not sleep and propagates the error.
C16_FailFast ==
    (/\ cpc \in {"log_failure", "raised"}
     /\ errorsSeen # {}
     /\ \A e \in errorsSeen : ~e.throttling)
        => (invocations = 1 /\ sleeps = 0)

\* C17 as stated: one call_llm whose logging does not fail writes as many
\* log entries as it made oracle invocations.
C17_EntryPerAttempt ==
    (CallEnded /\ ~logFailed) => logEntries = invocations

\* C17, amended: one call_llm writes one log entry, whatever the number of
\* oracle invocations it made, unless a log_experiment of the call raised,
\* and never more than one.
C17_EntryPerCall ==
    CallEnded =>
        /\ logEntries <= 1
        /\ ~logFailed => logEntries = 1
        /\ cpc = "returned" => logEntries = 1
C17_Witness ==
    /\ cpc = "returned" /\ invocations = max_retries /\ logEntries = 1

\* The resolved absolute form of the path is the sandbox root or a
\* descendant of it.
InSandbox(path) ==
    LET resolved == RealPath(path)
        root == RealPath(SandboxDir)
    IN  Len(root) <= Len(resolved) /\ SubSeq(resolved, 1, Len(root)) = root

\* C18: every path guard raises for a path that resolves outside the
\* sandbox, and no guarded read or write of such a path happens.
C18_Confinement ==
    /\ \A v \in verdicts : ~InSandbox(v.path) => v.verdict = "raise"
    /\ \A o \in opened : o.guarded => InSandbox(o.path)

\* C19: the guard of read_file and write_file accepts a path exactly when
\* its resolved form is the sandbox root or starts with the root followed
\* by the separator.
C19_SeparatorRule ==
    \A v \in verdicts :
        v.guard = "file_tools.is_safe_path" =>
            LET resolved == PathString(RealPath(v.path))
                root == PathString(RealPath(SandboxDir))
            IN  v.verdict = "accept"
                  <=> (resolved = root \/ StartsWith(resolved, root \o Sep))

\* C20: no component opens a file whose path has not passed a path guard.
C20_NoUnguardedOpen ==
    \A o \in opened : o.guarded

\* C21: when apply_fix comes to write the fix, original_code is in the
\* file as it is then; otherwise apply_fix reports an error and the file
\* keeps its content.
C21_FixPrecondition ==
    [][ (fpc = "write" /\ fpc' = "idle") =>
            \/ InContent(fix.original_code, fileContent)
            \/ (fixReport'.status = "ERROR" /\ fileContent' = fileContent) ]_vars

\* C22: a fix application reports success only after the syntax of
\* fixed_code was validated, original_code was found in the file and the
\* write succeeded.
C22_AppliedOnlyAfterChecks ==
    fixReport.status = "SUCCESS" =>
        (fixReport.validated /\ fixReport.found /\ fixReport.written)

\* C23: on every text, each parser returns a dictionary without raising,
\* and the fallback result, and only it, marks the parsing failure.
C23_ParseTotal ==
    pparser # "none" =>
        /\ presult.exc = "none"
        /\ presult.type = "dict"
        /\ presult.marked <=> presult.fallback

\* The text given to the parser cannot be decoded.
TextUndecodable == JsonLoads(JsonStr(ptext)) = Undecodable

\* C24: on a text that cannot be decoded, the Judge parser returns verdict
\* NEEDS_REVISION, requires_revision true and one issue of category
\* parsing_error and severity critical; the Auditor parser returns one
\* issue of category parsing_error and severity low.
C24_TypedFallback ==
    /\ (pparser = "Judge" /\ TextUndecodable) =>
          /\ presult.exc = "none"
          /\ presult.verdict = "NEEDS_REVISION"
          /\ presult.requires_revision
          /\ presult.issues = <<[severity |-> "critical", category |-> "parsing_error"]>>
    /\ (pparser = "Auditor" /\ TextUndecodable) =>
          /\ presult.exc = "none"
          /\ presult.issues = <<[severity |-> "low", category |-> "parsing_error"]>>
C24_Witness ==
    /\ pparser = "Judge" /\ TextUndecodable
    /\ Len(ptext) = 2 /\ ptext[1] = FenceJson /\ ptext[2].t = "object"
    /\ presult.fallback

\* The entries of the persisted log.
Persisted == {logFile.experiments[i] : i \in 1..Len(logFile.experiments)}

\* C25: a log_experiment call whose details lack 'input_prompt' or
\* 'output_response' raises ValueError and leaves the log as it was.
C25_MissingKeyRejected ==
    [][ (/\ logCalls' # logCalls
         /\ \/ lastLog'.args.input_prompt = Missing
            \/ lastLog'.args.output_response = Missing)
        => (lastLog'.exc = "ValueError" /\ logFile' = logFile /\ lcall' = lcall) ]_vars
C25_Witness ==
    /\ lastLog.exc = "ValueError"
    /\ lastLog.args.action = "FIX"
    /\ lastLog.args.input_prompt = "prompt"
    /\ lastLog.args.output_response = Missing
    /\ Len(logFile.experiments) = 1 /\ logCalls = 2

C27_NoneAccepted ==
    [][ /\ (/\ logCalls' # logCalls
            /\ lastLog'.args.input_prompt \in {None, ""}
            /\ lastLog'.args.output_response # Missing
            /\ lastLog'.args.action \in ActionTypes)
           => (lastLog'.exc = "none"
               /\ \E c \in Callers : lcall'[c].pc = "read"
                                      /\ lcall'[c].entry.input_prompt
                                           = lastLog'.args.input_prompt)
        /\ \A c \in Callers :
             (lcall[c].pc = "dump" /\ lcall'[c].pc = "idle"
                 /\ lcall[c].entry.input_prompt \in {None, ""})
               => (/\ lcall[c].entry \in lreturned'
                   /\ logFile'.experiments[Len(logFile'.experiments)] = lcall[c].entry) ]_vars
C27_Witness ==
    /\ NoLogCallActive
    /\ \E e \in lreturned \cap Persisted : e.input_prompt = ""
    /\ \E e \in lreturned \cap Persisted : e.input_prompt = None

\* C28: a log_experiment call that returns has made the experiments list
\* one entry longer: the entries persisted before, in their order, then
\* its entry.
C28_AppendOnly ==
    [][ \A c \in Callers :
            (lcall[c].pc = "dump" /\ lcall'[c].pc = "idle")
              => logFile'.experiments = Append(lcall[c].before, lcall[c].entry) ]_vars
C28_Witness ==
    /\ NoLogCallActive
    /\ Len(logFile.experiments) = 2
    /\ logFile.experiments[1].id < logFile.experiments[2].id

\* C29: with concurrent calls, once the calls have returned the entry of
\* every call that returned is in the persisted log.
C29_NoLostUpdate ==
    NoLogCallActive => lreturned \subseteq Persisted

\* C30: every persisted entry has a status among SUCCESS and FAILURE and
\* an action among the values of ActionType.
C30_StatusAndAction ==
    \A e \in Persisted :
        e.status \in {"SUCCESS", "FAILURE"} /\ e.action \in ActionTypes

\* C31: main exits with code 0 exactly when run returned status SUCCESS,
\* and when the target is no directory or the credential is absent it
\* exits non-zero with no orchestrator created and no stage of run begun.
C31_ExitCode ==
    cli.pc = "exited" =>
        /\ cli.code = 0 <=> (cli.created /\ pc = "done" /\ result.status = "SUCCESS")
        /\ (cli.target # "dir" \/ cli.key # "key")
             => /\ cli.code # 0
                /\ ~cli.created
                /\ pc = "start" /\ fixerStages = 0 /\ judgeStages = 0
C31_Witness ==
    /\ cli.pc = "exited" /\ cli.code = 0
    /\ result.status = "SUCCESS" /\ result.iterations >= 1

\* C32: a throttled attempt number k that is retried is followed by a sleep
\* of k * interval * 2, and the retry changes neither the interval nor the
\* time of the last request the rate limiter holds.
C32_BackoffLeavesInterval ==
    [][ sleeps' = sleeps + 1 =>
          /\ attempt' \in {1, 2}
          /\ now' - now = attempt' * RATE_LIMIT_INTERVAL * 2
          /\ interval' = interval /\ interval = RATE_LIMIT_INTERVAL
          /\ last_request_time' = last_request_time ]_vars
C32_Witness ==
    /\ sleeps = 2 /\ attempt = 2 /\ cpc = "attempt"
    /\ now - last_request_time = 6 * RATE_LIMIT_INTERVAL

\* C35: an oracle invocation made by call_llm comes at least the interval
\* after the oracle invocation call_llm made before it, retried attempts
\* included.
C35_InvocationGap ==
    [][ (invocations' = invocations + 1 /\ lastInvoked # NoKey)
           => now - lastInvoked >= RATE_LIMIT_INTERVAL ]_vars

\* C34: a step of FixerAgent.apply_fix that ends the call without status
\* SUCCESS (ERROR, DRY_RUN, or an exception leaving apply_fix) leaves the
\* content of the file as it was.
C34_FailureLeavesFile ==
    [][ (/\ fixOps' # fixOps \/ (fpc = "write" /\ fpc' = "idle")
         /\ fixReport'.op = "FixerAgent"
         /\ fixReport'.status \notin {"SUCCESS", "none"})
           => fileContent' = fileContent ]_vars

\* blocking is the list of the descriptions of the critical issues, in
\* their order.
CriticalDescriptions(blocking, issues) ==
    LET critical == {i \in 1..Len(issues) : issues[i].severity = "critical"}
    IN  /\ Len(blocking) = Cardinality(critical)
        /\ \A k \in 1..Len(blocking) :
             \E i \in critical :
                 /\ blocking[k] = issues[i].description
                 /\ Cardinality({j \in critical : j < i}) = k - 1

C37_OverallVerdict ==
    evaluated.done =>
        LET fixes == evaluated.fixes
            any(kinds) == \E i \in 1..Len(fixes) : fixes[i] \in kinds
        IN  /\ evaluated.exc = "none"
            /\ evaluated.overall_verdict =
                 IF Len(fixes) = 0 THEN "NO_FIXES"
                 ELSE IF any({"incomplete", "REJECTED"}) THEN "REJECTED"
                 ELSE IF any({"oracle raises", "NEEDS_REVISION"}) THEN "NEEDS_REVISION"
                 ELSE "APPROVED"
            /\ evaluated.approved + evaluated.rejected + evaluated.needs_revision
                 = evaluated.total_fixes
            /\ evaluated.total_fixes = Len(fixes)

\* C36: the iterations field of a result run returns is the number of
\* iterations started in the run (0 when the audit found no issues).
C36_IterationsStarted ==
    (pc = "done" /\ "iterations" \in DOMAIN result) =>
        /\ result.iterations = iteration
        /\ result.iterations = fixerStages

\* C38: a call that finds the log file empty or holding text that is no
\* JSON does not fail and leaves a document whose experiments are the new
\* entry alone; a call that finds a bare list leaves the list, followed by
\* the new entry, as the experiments.
C38_RecoversLogFile ==
    [][ \A c \in Callers :
          /\ (lcall[c].pc = "read" /\ lcall[c].found \in {"empty", "corrupt", "list"}
                 /\ lcall'[c] # lcall[c])
               => (lcall'[c].pc = "open" /\ lastLog'.exc = "none")
          /\ (lcall[c].pc = "dump" /\ lcall'[c].pc = "idle") =>
               /\ lcall[c].found \in {"empty", "corrupt"}
                    => logFile' = [state |-> "doc", experiments |-> <<lcall[c].entry>>]
               /\ lcall[c].found = "list"
                    => logFile' = [state |-> "doc",
                                   experiments |-> lcall[c].before \o <<lcall[c].entry>>] ]_vars
C38_Witness ==
    /\ NoLogCallActive
    /\ \E c \in Callers : lcall[c].found = "list"
    /\ logFile.state = "doc" /\ Len(logFile.experiments) = 2
    /\ logFile.experiments[1].id = 0 /\ logFile.experiments[2].id >= 1

====
